---- MODULE Spec2Model ----
(***************************************************************************)
(* Model of internal/provider/provider.go of the Unleash Terraform         *)
(* provider: construction (New), Metadata, Configure with its helpers      *)
(* (configValue, mustHave, unleashClient, versionCheck,                    *)
(* checkIsSupportedVersion) and the user data source lookup that runs on   *)
(* the client published by Configure.                                      *)
(*                                                                         *)
(* A Go string is a finite sequence of tokens (each token a TLA+ string);  *)
(* the empty Go string is << >> and "+" on strings is \o.                  *)
(***************************************************************************)
EXTENDS Integers, Sequences, FiniteSets, TLC

\* Longest base URL (in tokens) the configuration or environment carries.
MaxLen == 3

\* Tokens a base URL is made of: a host part and the slash.
UrlTokens == {"u", "/"}

UrlStrings == UNION {[1..k -> UrlTokens] : k \in 0..MaxLen}

AuthStrings == {<< >>, <<"token-x">>}

\* Values of UNLEASH_URL: empty, bare, and with one or two trailing slashes.
EnvUrlStrings == {<< >>, <<"/">>, <<"u">>, <<"u", "/">>, <<"u", "/", "/">>}

\* Version strings handed to New by main (local build, acceptance test).
ProviderVersions == {<<"dev">>, <<"test">>}

-----------------------------------------------------------------------------
(* Strings *)

HasSuffix(s, suffix) ==
    /\ Len(s) >= Len(suffix)
    /\ SubSeq(s, Len(s) - Len(suffix) + 1, Len(s)) = suffix

\* strings.TrimSuffix with no removal at all.
TrimSuffix_Keep(s, suffix) ==
    s

\* strings.TrimSuffix: s without the trailing suffix, removed at most once.
TrimSuffix(s, suffix) ==
    IF HasSuffix(s, suffix) THEN SubSeq(s, 1, Len(s) - Len(suffix)) ELSE s

-----------------------------------------------------------------------------
(* basetypes.StringValue and the environment *)

StringNull == [state |-> "null", value |-> << >>]
StringUnknown == [state |-> "unknown", value |-> << >>]
StringValue(s) == [state |-> "known", value |-> s]

IsNull(sv) == sv.state = "null"

\* ValueString is "" for null and unknown values.
ValueString(sv) == IF sv.state = "known" THEN sv.value ELSE << >>

EnvUnset == [set |-> FALSE, value |-> << >>]
EnvSet(s) == [set |-> TRUE, value |-> s]

\* os.Getenv: the value, "" when the variable is not set.
Getenv(e, name) == IF e[name].set THEN e[name].value ELSE << >>

\* configValue that treats an empty configuration value as absent.
configValue_EmptyFallsBack(cv, e, name) ==
    IF IsNull(cv) \/ ValueString(cv) = << >>
    THEN [value |-> Getenv(e, name), reads |-> {name}]
    ELSE [value |-> ValueString(cv), reads |-> {}]

\* configValue: the value returned and the environment variables consulted.
configValue(cv, e, name) ==
    IF IsNull(cv)
    THEN [value |-> Getenv(e, name), reads |-> {name}]
    ELSE [value |-> ValueString(cv), reads |-> {}]

-----------------------------------------------------------------------------
(* diag.Diagnostics *)

ErrorDiagnostic(summary, detail) ==
    [severity |-> "error", summary |-> summary, detail |-> detail]

WarningDiagnostic(summary, detail) ==
    [severity |-> "warning", summary |-> summary, detail |-> detail]

Contains(diags, d) == \E i \in 1..Len(diags) : diags[i] = d

\* Diagnostics.Append skips a diagnostic the collection already holds.
AppendDiag(diags, d) == IF Contains(diags, d) THEN diags ELSE Append(diags, d)

AddError(diags, summary, detail) == AppendDiag(diags, ErrorDiagnostic(summary, detail))

AddWarning(diags, summary, detail) == AppendDiag(diags, WarningDiagnostic(summary, detail))

HasError(diags) == \E i \in 1..Len(diags) : diags[i].severity = "error"

\* mustHave that accepts every value.
mustHave_Accept(name, value, diagnostics) ==
    diagnostics

mustHave(name, value, diagnostics) ==
    IF value = << >>
    THEN AddError(diagnostics,
                  <<"Unable to find ">> \o name,
                  name \o <<" cannot be an empty string">>)
    ELSE diagnostics

-----------------------------------------------------------------------------
(* github.com/Masterminds/semver, as checkIsSupportedVersion uses it *)

\* Numeric tokens and their values (strconv.ParseUint).
NumVal == [t \in {"0", "1", "4", "5", "6", "7", "9"} |->
             CASE t = "0" -> 0 [] t = "1" -> 1 [] t = "4" -> 4 [] t = "5" -> 5
               [] t = "6" -> 6 [] t = "7" -> 7 [] t = "9" -> 9]

IsNum(t) == t \in DOMAIN NumVal

\* Alphanumeric pre-release identifiers, with their rank in Go's string order.
AlphaRank == [t \in {"alpha", "beta", "rc"} |->
                CASE t = "alpha" -> 1 [] t = "beta" -> 2 [] t = "rc" -> 3]

IsIdent(t) == IsNum(t) \/ t \in DOMAIN AlphaRank

Itoa(n) == CHOOSE t \in DOMAIN NumVal : NumVal[t] = n

Tok(s, i) == IF i >= 1 /\ i <= Len(s) THEN s[i] ELSE "<eof>"

\* Position after the dot-separated identifiers that start at position i.
RECURSIVE IdentsEnd(_, _)
IdentsEnd(s, i) ==
    IF Tok(s, i + 1) = "." /\ IsIdent(Tok(s, i + 2))
    THEN IdentsEnd(s, i + 2)
    ELSE i + 1

\* The identifiers at positions i, i+2, ... below position e.
RECURSIVE Idents(_, _, _)
Idents(s, i, e) ==
    IF i >= e THEN << >> ELSE <<s[i]>> \o Idents(s, i + 2, e)

InvalidSemVer == [ok |-> FALSE, major |-> 0, minor |-> 0, patch |-> 0,
                  pre |-> << >>, metadata |-> << >>, err |-> <<"Invalid Semantic Version">>]

ParsedVersion(major) ==
    [ok |-> TRUE, major |-> major, minor |-> 0, patch |-> 0,
     pre |-> << >>, metadata |-> << >>, err |-> << >>]

\* Nothing may follow the last part.
ParseEnd(s, p, v) ==
    IF p = Len(s) + 1 THEN v ELSE InvalidSemVer

\* (+META)?
ParseMetadata(s, p, v) ==
    IF Tok(s, p) = "+" /\ IsIdent(Tok(s, p + 1))
    THEN ParseEnd(s, IdentsEnd(s, p + 1),
                  [v EXCEPT !.metadata = Idents(s, p + 1, IdentsEnd(s, p + 1))])
    ELSE ParseEnd(s, p, v)

\* (-PRE)?
ParsePrerelease(s, p, v) ==
    IF Tok(s, p) = "-" /\ IsIdent(Tok(s, p + 1))
    THEN ParseMetadata(s, IdentsEnd(s, p + 1),
                       [v EXCEPT !.pre = Idents(s, p + 1, IdentsEnd(s, p + 1))])
    ELSE ParseMetadata(s, p, v)

\* (.PATCH)?
ParsePatch(s, p, v) ==
    IF Tok(s, p) = "." /\ IsNum(Tok(s, p + 1))
    THEN ParsePrerelease(s, p + 2, [v EXCEPT !.patch = NumVal[s[p + 1]]])
    ELSE ParsePrerelease(s, p, v)

\* (.MINOR)?
ParseMinor(s, p, v) ==
    IF Tok(s, p) = "." /\ IsNum(Tok(s, p + 1))
    THEN ParsePatch(s, p + 2, [v EXCEPT !.minor = NumVal[s[p + 1]]])
    ELSE ParsePrerelease(s, p, v)

\* MAJOR
ParseMajor(s, p) ==
    IF IsNum(Tok(s, p))
    THEN ParseMinor(s, p + 1, ParsedVersion(NumVal[s[p]]))
    ELSE InvalidSemVer

\* semver.NewVersion: v?MAJOR(.MINOR)?(.PATCH)?(-PRE)?(+META)?, missing parts 0.
NewVersion(s) ==
    ParseMajor(s, IF Tok(s, 1) = "v" THEN 2 ELSE 1)

compareSegment(v, o) == IF v < o THEN -1 ELSE IF v > o THEN 1 ELSE 0

\* comparePrePart: "" is the missing part of the shorter pre-release.
comparePrePart(s, o) ==
    IF s = o THEN 0
    ELSE IF s = "" THEN -1
    ELSE IF o = "" THEN 1
    ELSE IF ~IsNum(s) /\ ~IsNum(o)
         THEN (IF AlphaRank[s] > AlphaRank[o] THEN 1 ELSE -1)
    ELSE IF ~IsNum(o) THEN -1
    ELSE IF ~IsNum(s) THEN 1
    ELSE IF NumVal[s] > NumVal[o] THEN 1 ELSE -1

RECURSIVE comparePrereleaseFrom(_, _, _)
comparePrereleaseFrom(v, o, i) ==
    IF i > Len(v) /\ i > Len(o) THEN 0
    ELSE LET d == comparePrePart(IF i <= Len(v) THEN v[i] ELSE "",
                                 IF i <= Len(o) THEN o[i] ELSE "")
         IN  IF d # 0 THEN d ELSE comparePrereleaseFrom(v, o, i + 1)

comparePrerelease(v, o) == comparePrereleaseFrom(v, o, 1)

\* Version.Compare: -1, 0 or 1; build metadata is ignored.
Compare(v, o) ==
    IF compareSegment(v.major, o.major) # 0 THEN compareSegment(v.major, o.major)
    ELSE IF compareSegment(v.minor, o.minor) # 0 THEN compareSegment(v.minor, o.minor)
    ELSE IF compareSegment(v.patch, o.patch) # 0 THEN compareSegment(v.patch, o.patch)
    ELSE IF v.pre = << >> /\ o.pre = << >> THEN 0
    ELSE IF v.pre = << >> THEN 1
    ELSE IF o.pre = << >> THEN -1
    ELSE comparePrerelease(v.pre, o.pre)

RECURSIVE JoinDots(_)
JoinDots(ids) ==
    IF Len(ids) = 0 THEN << >>
    ELSE IF Len(ids) = 1 THEN <<ids[1]>>
    ELSE <<ids[1], ".">> \o JoinDots(Tail(ids))

\* Version.String: MAJOR.MINOR.PATCH[-PRE][+META].
VersionString(v) ==
    <<Itoa(v.major), ".", Itoa(v.minor), ".", Itoa(v.patch)>>
        \o (IF v.pre # << >> THEN <<"-">> \o JoinDots(v.pre) ELSE << >>)
        \o (IF v.metadata # << >> THEN <<"+">> \o JoinDots(v.metadata) ELSE << >>)

\* The minimum without the pre-release suffix.
minimumVersionString_Release == <<"5", ".", "6", ".", "0">>

\* "5.6.0-0": -0 makes the pre-release versions of 5.6.0 acceptable.
minimumVersionString == <<"5", ".", "6", ".", "0", "-", "0">>

\* The comparison of a parsed version with the minimum (lines 123-129).
checkAgainstMinimum(version, v, minimumVersion, diags) ==
    IF Compare(v, minimumVersion) < 0
    THEN AddError(diags, <<"Unsupported Unleash version">>,
                  <<"You're using version ">> \o version
                    \o <<", while the provider requires at least ">>
                    \o VersionString(minimumVersion))
    ELSE diags

\* The handling of NewVersion's result (lines 115-129).
checkParsedVersion(version, v, diags) ==
    IF ~v.ok
    THEN AddError(diags,
                  <<"Unable read unleash version from string ">> \o version,
                  v.err)
    ELSE checkAgainstMinimum(version, v, NewVersion(minimumVersionString), diags)

\* The handling of NewVersion's result with no error for an unreadable version.
checkParsedVersion_IgnoreParseError(version, v, diags) ==
    IF ~v.ok
    THEN diags
    ELSE checkAgainstMinimum(version, v, NewVersion(minimumVersionString), diags)

\* checkIsSupportedVersion that lets an unreadable version pass.
checkIsSupportedVersion_IgnoreParseError(version, diags) ==
    checkParsedVersion_IgnoreParseError(version, NewVersion(version), diags)

checkIsSupportedVersion(version, diags) ==
    checkParsedVersion(version, NewVersion(version), diags)

-----------------------------------------------------------------------------
(* The API client and the remote server *)

\* A nil *unleash.APIClient.
NilClient == [set |-> FALSE, url |-> << >>, authorization |-> << >>]

\* unleash.NewAPIClient: one server URL and the default Authorization header.
NewAPIClient(url, authorization) ==
    [set |-> TRUE, url |-> url, authorization |-> authorization]

\* A request as the server sees it.
Request(client, path) ==
    [url |-> client.url \o path, authorization |-> client.authorization]

\* What unleashClient returns once its diagnostics d are known (lines 54-74),
\* with the locals and the environment variables consulted on the way.
builtClient(base_url, authorization, header, reads, d) ==
    [diags |-> d,
     base_url |-> base_url,
     authorization |-> authorization,
     reads |-> reads,
     client |-> IF HasError(d) THEN NilClient ELSE NewAPIClient(base_url, header)]

\* Validation that stops at the first missing field.
validated_FailFast(base_url, authorization, reads, diagnostics) ==
    builtClient(base_url, authorization, authorization, reads,
                IF base_url = << >>
                THEN mustHave(<<"base_url">>, base_url, diagnostics)
                ELSE mustHave(<<"authorization">>, authorization, diagnostics))

\* The client built without the Authorization header.
validated_NoHeader(base_url, authorization, reads, diagnostics) ==
    builtClient(base_url, authorization, << >>, reads,
                mustHave(<<"authorization">>, authorization,
                         mustHave(<<"base_url">>, base_url, diagnostics)))

\* Lines 51-74: both fields are validated, then the client is built.
validated(base_url, authorization, reads, diagnostics) ==
    builtClient(base_url, authorization, authorization, reads,
                mustHave(<<"authorization">>, authorization,
                         mustHave(<<"base_url">>, base_url, diagnostics)))

\* Lines 49-50 with the values configValue returned.
resolved(url, auth, diagnostics) ==
    validated(TrimSuffix(url.value, <<"/">>), auth.value,
              url.reads \cup auth.reads, diagnostics)

\* unleashClient that stops validating at the first missing field.
unleashClient_FailFast(config, e, diagnostics) ==
    validated_FailFast(
        TrimSuffix(configValue(config.BaseUrl, e, "UNLEASH_URL").value, <<"/">>),
        configValue(config.Authorization, e, "AUTH_TOKEN").value,
        configValue(config.BaseUrl, e, "UNLEASH_URL").reads
            \cup configValue(config.Authorization, e, "AUTH_TOKEN").reads,
        diagnostics)

\* unleashClient that builds the client without the Authorization header.
unleashClient_NoHeader(config, e, diagnostics) ==
    validated_NoHeader(
        TrimSuffix(configValue(config.BaseUrl, e, "UNLEASH_URL").value, <<"/">>),
        configValue(config.Authorization, e, "AUTH_TOKEN").value,
        configValue(config.BaseUrl, e, "UNLEASH_URL").reads
            \cup configValue(config.Authorization, e, "AUTH_TOKEN").reads,
        diagnostics)

\* unleashClient: the diagnostics, the locals base_url and authorization, the
\* environment variables consulted and the client returned (nil on error).
unleashClient(config, e, diagnostics) ==
    resolved(configValue(config.BaseUrl, e, "UNLEASH_URL"),
             configValue(config.Authorization, e, "AUTH_TOKEN"),
             diagnostics)

\* Status the version gate expects of the metadata endpoint.
StatusOK == 200

\* Version strings a server reports, readable and not.
ServerVersions ==
    { <<"4", ".", "9", ".", "1">>,
      <<"5", ".", "5", ".", "9">>,
      <<"5", ".", "5", ".", "9", "-", "beta">>,
      <<"5", ".", "6", ".", "0", "-", "0">>,
      <<"5", ".", "6", ".", "0", "-", "beta">>,
      <<"5", ".", "6", ".", "0", "-", "rc", ".", "1">>,
      <<"5", ".", "6", ".", "0">>,
      <<"5", ".", "6", ".", "0", "+", "1">>,
      <<"v", "5", ".", "6", ".", "1">>,
      <<"5", ".", "7", ".", "0">>,
      <<"5", ".", "7">>,
      <<"5">>,
      <<"6", ".", "0", ".", "0", "-", "alpha", ".", "1">>,
      <<"6", ".", "1", ".", "4">>,
      << >>,
      <<"latest">>,
      <<"5", ".", "6", ".">>,
      <<"5", ".", "6", ".", "0", "-">> }

\* Latest releases the server lists next to its own version.
LatestOss == <<"6", ".", "1", ".", "4">>
LatestEnterprise == <<"6", ".", "1", ".", "4", "+", "1">>

\* Outcome of GetUiConfig(ctx).Execute(): a transport error, or a status and,
\* with status 200, the decoded body.
NoResponse == [err |-> FALSE, status |-> 0, version |-> << >>, isLatest |-> FALSE]

UiConfigResponses ==
    {[err |-> TRUE, status |-> 0, version |-> << >>, isLatest |-> FALSE]}
    \cup {[err |-> FALSE, status |-> st, version |-> << >>, isLatest |-> FALSE]
            : st \in {401, 500}}
    \cup {[err |-> FALSE, status |-> StatusOK, version |-> v, isLatest |-> l]
            : v \in ServerVersions, l \in BOOLEAN}

\* ValidateApiResponse: an error diagnostic and false on a transport error or
\* a status other than the expected one.
ValidateApiResponse(api_response, expected, diags, err) ==
    IF err
    THEN [ok |-> FALSE,
          diags |-> AddError(diags, <<"Client Error">>, <<"request failed">>)]
    ELSE IF api_response.status # expected
    THEN [ok |-> FALSE,
          diags |-> AddError(diags, <<"Unexpected HTTP status">>, <<"unexpected status">>)]
    ELSE [ok |-> TRUE, diags |-> diags]

OutdatedSummary ==
    <<"You're not using the latest Unleash version, consider upgrading">>

OutdatedDetail(r) ==
    <<"You're using version ">> \o r.version
        \o <<", the latest unleash-server is ">> \o LatestOss
        \o <<", while the latest enterprise version is: ">> \o LatestEnterprise

\* Lines 135-144 with ValidateApiResponse's result.
gate(r, valid) ==
    IF ~valid.ok THEN valid.diags
    ELSE checkIsSupportedVersion(r.version,
            IF ~r.isLatest
            THEN AddWarning(valid.diags, OutdatedSummary, OutdatedDetail(r))
            ELSE valid.diags)

\* The gate reporting an outdated server as an error.
gate_OutdatedIsError(r, valid) ==
    IF ~valid.ok THEN valid.diags
    ELSE checkIsSupportedVersion(r.version,
            IF ~r.isLatest
            THEN AddError(valid.diags, OutdatedSummary, OutdatedDetail(r))
            ELSE valid.diags)

\* The gate warning only when the version check added no error.
warnIfSupported(r, checked) ==
    IF ~r.isLatest /\ ~HasError(checked)
    THEN AddWarning(checked, OutdatedSummary, OutdatedDetail(r))
    ELSE checked

gate_WarnIfSupported(r, valid) ==
    IF ~valid.ok THEN valid.diags
    ELSE warnIfSupported(r, checkIsSupportedVersion(r.version, valid.diags))

\* versionCheck that reports an outdated server as an error.
versionCheck_OutdatedIsError(client, r, diags) ==
    [calls |-> <<Request(client, <<"/api/admin/ui-config">>)>>,
     diags |-> gate_OutdatedIsError(r, ValidateApiResponse(r, StatusOK, diags, r.err))]

\* versionCheck that warns only about a supported version.
versionCheck_WarnIfSupported(client, r, diags) ==
    [calls |-> <<Request(client, <<"/api/admin/ui-config">>)>>,
     diags |-> gate_WarnIfSupported(r, ValidateApiResponse(r, StatusOK, diags, r.err))]

\* versionCheck: the one call to the metadata endpoint and the diagnostics.
versionCheck(client, r, diags) ==
    [calls |-> <<Request(client, <<"/api/admin/ui-config">>)>>,
     diags |-> gate(r, ValidateApiResponse(r, StatusOK, diags, r.err))]

-----------------------------------------------------------------------------
(* The provider *)

VARIABLES
    pc,             \* where the host framework is in the provider's life cycle
    env,            \* the process environment
    newVersion,     \* the version string handed to New
    provider,       \* the UnleashProvider New returned
    metadataResp,   \* the provider.MetadataResponse Metadata filled in
    config,         \* req.Config as decoded into UnleashConfiguration
    locals,         \* base_url, authorization and client of Configure's run,
                    \* and the environment variables it consulted
    diags,          \* resp.Diagnostics of Configure
    ResourceData,   \* resp.ResourceData of Configure
    DataSourceData, \* resp.DataSourceData of Configure
    calls,          \* the requests the remote server has received
    uiResponse,     \* what the server answered to the version gate
    userData,       \* the state written by the user data source
    userDiags       \* the diagnostics of the user data source's Read

vars == <<pc, env, newVersion, provider, metadataResp, config, locals, diags,
          ResourceData, DataSourceData, calls, uiResponse, userData, userDiags>>

Environments ==
    {[UNLEASH_URL |-> u, AUTH_TOKEN |-> a] :
        u \in {EnvUnset} \cup {EnvSet(s) : s \in EnvUrlStrings},
        a \in {EnvUnset} \cup {EnvSet(s) : s \in AuthStrings}}

Configurations ==
    {[BaseUrl |-> u, Authorization |-> a] :
        u \in {StringNull, StringUnknown} \cup {StringValue(s) : s \in UrlStrings},
        a \in {StringNull, StringUnknown} \cup {StringValue(s) : s \in AuthStrings}}

NoProvider == [set |-> FALSE, version |-> << >>]
NoMetadata == [set |-> FALSE, TypeName |-> << >>, Version |-> << >>]
NoConfig == [BaseUrl |-> StringNull, Authorization |-> StringNull]
NoLocals == [base_url |-> << >>, authorization |-> << >>, reads |-> {},
             client |-> NilClient]
NoUser == [set |-> FALSE, id |-> << >>, username |-> << >>]

Init ==
    /\ pc = "start"
    /\ env \in Environments
    /\ newVersion = << >>
    /\ provider = NoProvider
    /\ metadataResp = NoMetadata
    /\ config = NoConfig
    /\ locals = NoLocals
    /\ diags = << >>
    /\ ResourceData = NilClient
    /\ DataSourceData = NilClient
    /\ calls = << >>
    /\ uiResponse = NoResponse
    /\ userData = NoUser
    /\ userDiags = << >>

\* The provider New's factory returns: the struct literal sets no field.
UnleashProvider(version) ==
    [set |-> TRUE, version |-> << >>]

\* New(version)(): main instantiates the provider.
New ==
    /\ pc = "start"
    /\ \E version \in ProviderVersions :
        /\ newVersion' = version
        /\ provider' = UnleashProvider(version)
    /\ pc' = "constructed"
    /\ UNCHANGED <<env, metadataResp, config, locals, diags, ResourceData,
                   DataSourceData, calls, uiResponse, userData, userDiags>>

\* Metadata: the framework asks the provider for its type name and version.
Metadata ==
    /\ pc = "constructed"
    /\ metadataResp' = [set |-> TRUE,
                        TypeName |-> <<"unleash">>,
                        Version |-> provider.version]
    /\ pc' = "described"
    /\ UNCHANGED <<env, newVersion, provider, config, locals, diags, ResourceData,
                   DataSourceData, calls, uiResponse, userData, userDiags>>

\* Lines 164-174: the outcome once versionCheck returned checked.
afterVersionCheck(built, r, checked) ==
    [diags |-> checked.diags, built |-> built, calls |-> checked.calls,
     response |-> r,
     DataSourceData |-> IF HasError(checked.diags) THEN NilClient ELSE built.client,
     ResourceData |-> IF HasError(checked.diags) THEN NilClient ELSE built.client]

\* Lines 158-174: the outcome once unleashClient returned built.
afterClient(built, r) ==
    IF HasError(built.diags)
    THEN [diags |-> built.diags, built |-> built, calls |-> << >>,
          response |-> NoResponse,
          DataSourceData |-> NilClient, ResourceData |-> NilClient]
    ELSE afterVersionCheck(built, r, versionCheck(built.client, r, built.diags))

\* What Configure leaves behind for configuration c when the server answers
\* the version gate with r. req.Config.Get cannot fail for this schema (two
\* optional strings decoded into types.String), so the first return is dead.
ConfigureResult(c, e, r) ==
    afterClient(unleashClient(c, e, << >>), r)

\* Configure: called once per session, after Metadata.
Configure ==
    /\ pc = "described"
    /\ \E c \in Configurations, r \in UiConfigResponses :
        \E res \in {ConfigureResult(c, env, r)} :
            /\ config' = c
            /\ locals' = [base_url |-> res.built.base_url,
                          authorization |-> res.built.authorization,
                          reads |-> res.built.reads,
                          client |-> res.built.client]
            /\ diags' = res.diags
            /\ calls' = calls \o res.calls
            /\ uiResponse' = res.response
            /\ DataSourceData' = res.DataSourceData
            /\ ResourceData' = res.ResourceData
    /\ pc' = "configured"
    /\ UNCHANGED <<env, newVersion, provider, metadataResp, userData, userDiags>>

-----------------------------------------------------------------------------
(* The user data source *)

\* Identifiers a user data source is declared with.
UserIds == {<<"1">>, <<"2">>, <<"7">>}

\* The users the remote server holds.
RemoteUsers == [id \in {<<"1">>, <<"2">>} |->
                  IF id = <<"1">> THEN <<"admin">> ELSE <<"other">>]

\* Read of data "unleash_user": one lookup through the client the provider
\* published in DataSourceData; a user that does not exist is an error.
UserDataSourceRead ==
    /\ pc = "configured"
    /\ DataSourceData.set
    /\ \E id \in UserIds :
        /\ calls' = Append(calls, Request(DataSourceData, <<"/api/admin/users/">> \o id))
        /\ IF id \in DOMAIN RemoteUsers
           THEN /\ userData' = [set |-> TRUE, id |-> id, username |-> RemoteUsers[id]]
                /\ userDiags' = << >>
           ELSE /\ userData' = NoUser
                /\ userDiags' = AddError(<< >>, <<"Client Error">>, <<"user not found">>)
    /\ pc' = "read"
    /\ UNCHANGED <<env, newVersion, provider, metadataResp, config, locals, diags,
                   ResourceData, DataSourceData, uiResponse>>

Next ==
    \/ New
    \/ Metadata
    \/ Configure
    \/ UserDataSourceRead

Spec == Init /\ [][Next]_vars

-----------------------------------------------------------------------------
(* Properties *)

Configured == pc \in {"configured", "read"}

\* The version gate issued its request.
GateRan == Configured /\ Len(calls) >= 1

ErrorCount(d) == Cardinality({i \in 1..Len(d) : d[i].severity = "error"})

\* What a required field resolves to: the configuration value when there is
\* one, else the environment variable, else the empty string.
Resolved(cv, name) ==
    CASE cv.state = "known" -> cv.value
      [] cv.state = "null" -> (IF env[name].set THEN env[name].value ELSE << >>)
      [] OTHER -> << >>

ResolvedBaseUrl == Resolved(config.BaseUrl, "UNLEASH_URL")

ResolvedAuthorization == Resolved(config.Authorization, "AUTH_TOKEN")

MissingError(name) ==
    ErrorDiagnostic(<<"Unable to find ", name>>, <<name, " cannot be an empty string">>)

\* C1: whenever base_url or authorization resolves to the empty string,
\* Configure ends with an error diagnostic, publishes no client in
\* ResourceData or DataSourceData, and the server has received no request.
C1_MissingValueNoClientNoCall ==
    (Configured /\ (ResolvedBaseUrl = << >> \/ ResolvedAuthorization = << >>))
        => /\ HasError(diags)
           /\ ~ResourceData.set
           /\ ~DataSourceData.set
           /\ ~locals.client.set
           /\ calls = << >>

\* Configure ran with an empty base_url and a usable authorization.
C1_Witness ==
    /\ Configured
    /\ ResolvedBaseUrl = << >>
    /\ ResolvedAuthorization # << >>
    /\ HasError(diags)

\* C2 as stated: the URL of the constructed client never ends with "/".
C2_NeverTrailingSlash ==
    locals.client.set => ~HasSuffix(locals.client.url, <<"/">>)

\* C2 (amended): the constructed client's URL is the resolved base URL with
\* exactly one trailing "/" removed when it has one; so it ends with no "/"
\* when the input ended with at most one, and keeps all but one otherwise.
C2_OneTrailingSlashRemoved ==
    locals.client.set =>
        /\ HasSuffix(ResolvedBaseUrl, <<"/">>)
              => locals.client.url \o <<"/">> = ResolvedBaseUrl
        /\ ~HasSuffix(ResolvedBaseUrl, <<"/">>)
              => locals.client.url = ResolvedBaseUrl
        /\ ~HasSuffix(ResolvedBaseUrl, <<"/", "/">>)
              => ~HasSuffix(locals.client.url, <<"/">>)

\* A client was built from a base URL with one trailing slash.
C2_Witness ==
    /\ locals.client.set
    /\ ResolvedBaseUrl = <<"u", "/">>
    /\ locals.client.url = <<"u">>

\* Version strings no semantic version can be read from.
UnreadableVersions ==
    {<< >>, <<"latest">>, <<"5", ".", "6", ".">>, <<"5", ".", "6", ".", "0", "-">>}

\* The version gate got a 200 answer.
GateAnswered == GateRan /\ ~uiResponse.err /\ uiResponse.status = 200

\* The reported version's major.minor.patch is below 5.6.0.
BelowMinimum(version) ==
    LET v == NewVersion(version)
    IN  v.major < 5 \/ (v.major = 5 /\ v.minor < 6)

UnsupportedError(version) ==
    ErrorDiagnostic(<<"Unsupported Unleash version">>,
                    <<"You're using version ">> \o version
                      \o <<", while the provider requires at least ",
                           "5", ".", "6", ".", "0", "-", "0">>)

\* C3: for a readable version the gate adds the "Unsupported Unleash version"
\* error, naming the reported and the minimum version, exactly when the
\* version is below 5.6.0; 5.6.0, its pre-releases and later versions get no
\* error at all.
C3_ErrorIffBelowMinimum ==
    (GateAnswered /\ uiResponse.version \notin UnreadableVersions) =>
        IF BelowMinimum(uiResponse.version)
        THEN Contains(diags, UnsupportedError(uiResponse.version))
               /\ ErrorCount(diags) = 1
        ELSE ~HasError(diags)

\* The pre-release 5.6.0-beta passed the gate.
C3_Witness ==
    /\ GateAnswered
    /\ uiResponse.version = <<"5", ".", "6", ".", "0", "-", "beta">>
    /\ ~HasError(diags)
    /\ ResourceData.set

\* C4: a transport failure, a status other than 200 or an unreadable version
\* ends Configure with an error and without ResourceData or DataSourceData,
\* and no data source reads through a client afterwards.
C4_GateFailureAborts ==
    (GateRan /\ (uiResponse.err \/ uiResponse.status # 200
                   \/ uiResponse.version \in UnreadableVersions))
        => /\ HasError(diags)
           /\ ~ResourceData.set
           /\ ~DataSourceData.set
           /\ pc # "read"
           /\ ~userData.set

\* The server answered 200 with a version that cannot be read.
C4_Witness ==
    /\ GateAnswered
    /\ uiResponse.version = <<"latest">>
    /\ HasError(diags)
    /\ ~DataSourceData.set

IsOutdatedNotice(d) ==
    d.summary = <<"You're not using the latest Unleash version, consider upgrading">>

HasOutdatedWarning ==
    \E i \in 1..Len(diags) : IsOutdatedNotice(diags[i]) /\ diags[i].severity = "warning"

\* C5: a 200 answer with isLatest = false gives a warning and no error on
\* its account, and with a supported version Configure publishes the client
\* in both ResourceData and DataSourceData.
C5_OutdatedIsWarningOnly ==
    (GateAnswered /\ ~uiResponse.isLatest) =>
        /\ HasOutdatedWarning
        /\ \A i \in 1..Len(diags) : IsOutdatedNotice(diags[i]) => diags[i].severity = "warning"
        /\ (uiResponse.version \notin UnreadableVersions /\ ~BelowMinimum(uiResponse.version))
              => /\ ~HasError(diags)
                 /\ locals.client.set
                 /\ ResourceData = locals.client
                 /\ DataSourceData = locals.client

\* An outdated but supported server: warned about, and the client published.
C5_Witness ==
    /\ GateAnswered
    /\ ~uiResponse.isLatest
    /\ uiResponse.version = <<"5", ".", "7", ".", "0">>
    /\ HasOutdatedWarning
    /\ ResourceData.set
    /\ DataSourceData.set

\* C6: configValue returns the configuration value when there is one (empty
\* or not), else the environment variable's value, else the empty string, and
\* reads the environment variable only when the configuration value is null.
C6_ConfigValueContract ==
    Configured =>
        /\ config.Authorization.state # "unknown"
              => locals.authorization = ResolvedAuthorization
        /\ config.BaseUrl.state # "unknown"
              => (locals.base_url = ResolvedBaseUrl
                    \/ locals.base_url \o <<"/">> = ResolvedBaseUrl)
        /\ ("AUTH_TOKEN" \in locals.reads) <=> (config.Authorization.state = "null")
        /\ ("UNLEASH_URL" \in locals.reads) <=> (config.BaseUrl.state = "null")

\* An empty configuration value won over a set environment variable.
C6_Witness ==
    /\ Configured
    /\ config.Authorization = StringValue(<< >>)
    /\ env.AUTH_TOKEN = EnvSet(<<"token-x">>)
    /\ locals.authorization = << >>
    /\ "AUTH_TOKEN" \notin locals.reads

C8_UserLookupThroughPublishedClient ==
    (pc = "read" /\ userData.set) =>
        LET req == calls[Len(calls)]
        IN  /\ Len(calls) = 2
            /\ req.url = locals.client.url \o <<"/api/admin/users/">> \o userData.id
            /\ (locals.client.url = ResolvedBaseUrl
                  \/ locals.client.url \o <<"/">> = ResolvedBaseUrl)
            /\ req.authorization = ResolvedAuthorization
            /\ req.authorization # << >>
            /\ userData.username = RemoteUsers[userData.id]
            /\ (userData.id = <<"1">> => userData.username = <<"admin">>)

\* The lookup of user 1 went to u/api/admin/users/1 with the token.
C8_Witness ==
    /\ pc = "read"
    /\ userData = [set |-> TRUE, id |-> <<"1">>, username |-> <<"admin">>]
    /\ calls[Len(calls)] = [url |-> <<"u", "/api/admin/users/", "1">>,
                            authorization |-> <<"token-x">>]

\* C9 as stated: the "not the latest version" warning is there exactly when
\* the answer is 200, the version is at or above the minimum and the server
\* does not flag it latest.
C9_WarningIffSupportedAndOutdated ==
    Configured =>
        (HasOutdatedWarning <=>
            /\ GateAnswered
            /\ ~uiResponse.isLatest
            /\ uiResponse.version \notin UnreadableVersions
            /\ ~BelowMinimum(uiResponse.version))

\* C9 (amended): the warning is there exactly when the answer is 200 and the
\* server does not flag the version latest, whatever the version is; a
\* readable version below the minimum also gets the fatal error, and an
\* answer flagged latest gets no warning.
C9_WarningIffOutdated ==
    Configured =>
        /\ HasOutdatedWarning <=> (GateAnswered /\ ~uiResponse.isLatest)
        /\ (GateAnswered /\ uiResponse.version \notin UnreadableVersions
              /\ BelowMinimum(uiResponse.version))
              => Contains(diags, UnsupportedError(uiResponse.version))
        /\ (GateAnswered /\ uiResponse.isLatest) => Len(diags) = ErrorCount(diags)

\* An outdated server below the minimum: the warning and the fatal error.
C9_Witness ==
    /\ GateAnswered
    /\ ~uiResponse.isLatest
    /\ uiResponse.version = <<"5", ".", "5", ".", "9">>
    /\ HasOutdatedWarning
    /\ Contains(diags, UnsupportedError(uiResponse.version))

\* C10: Metadata on the provider built by New(v) reports Version = v and
\* TypeName = "unleash".
C10_MetadataReportsNewVersion ==
    metadataResp.set =>
        /\ metadataResp.TypeName = <<"unleash">>
        /\ metadataResp.Version = newVersion

====
